---- MODULE Spec2Model ----
(***************************************************************************)
(* A model of AcademicForecast (src/academicforecast.py): the course       *)
(* resolver (CourseDataResolver), the progress classifier                  *)
(* (get_student_progress) and the term-by-term planner (generate_forecast) *)
(* run over a batch of students by main().                                 *)
(*                                                                         *)
(* Representation.                                                         *)
(*  - A Python str that the program splits or concatenates (course codes,  *)
(*    curriculum ids, cache keys) is a sequence of symbols; "-" and "/"    *)
(*    are symbols of their own, every other symbol stands for one          *)
(*    character that is neither.  Concatenation is \o.                     *)
(*  - Grade labels and display names are never taken apart by the program  *)
(*    and are TLA+ strings.                                                *)
(*  - An internal code (a key of aliases.json) is a positive integer;      *)
(*    None is NoCode.                                                      *)
(*  - A Python dict is a function; a missing key is a value outside its    *)
(*    DOMAIN.  The alias table, whose iteration order the program depends  *)
(*    on, is a sequence of entries in dict order.                          *)
(*  - A Python set is a set; list(a_set) is any enumeration of it.         *)
(*  - sorted(list(a_set)) is represented by the set it enumerates.         *)
(***************************************************************************)
EXTENDS Integers, Sequences, FiniteSets, TLC

VARIABLES
    aliases,                    \* CourseDataResolver._aliases (config/aliases.json)
    course_id_to_details,       \* CourseDataResolver._course_id_to_details
    course_id_to_internal_code, \* CourseDataResolver._course_id_to_internal_code
    canonical_cache,            \* CourseDataResolver._canonical_cache
    offering_cache,             \* CourseDataResolver._offering_cache
    grade_order,                \* config["GRADE_ORDER"]
    calendar,                   \* config["current_year"], config["current_semester"]
    students_data,              \* students.json, in dict order
    full_forecast,              \* main(): the results computed so far
    pos,                        \* main(): index of the student being processed
    pc,                         \* position inside generate_forecast
    fc,                         \* the local variables of generate_forecast
    last_call                   \* the last resolver call made from outside and its result

vars == <<aliases, course_id_to_details, course_id_to_internal_code, canonical_cache,
          offering_cache, grade_order, calendar, students_data, full_forecast, pos,
          pc, fc, last_call>>

-----------------------------------------------------------------------------
(* Bounds of the model *)

\* records in one student's history (main specification)
MaxRecords == 2
\* students in one batch
MaxStudents == 2
\* get_canonical_course calls in one behaviour of the resolver specification
MaxCalls == 2
\* entries of the alias table in the resolver specification
MaxEntries == 2

-----------------------------------------------------------------------------
(* Python primitives *)

NoCode == 0
Empty == <<>>
Dash == <<"-">>

Range(s) == {s[j] : j \in 1..Len(s)}

\* str.split('/'): the pieces between the separators, in order ("" gives [""])
RECURSIVE Split(_)
Split(s) ==
    IF \A j \in 1..Len(s) : s[j] # "/"
    THEN <<s>>
    ELSE LET j == CHOOSE h \in 1..Len(s) : s[h] = "/" /\ \A g \in 1..(h - 1) : s[g] # "/"
         IN  <<SubSeq(s, 1, j - 1)>> \o Split(SubSeq(s, j + 1, Len(s)))

\* x in s.split('/')
InSplit(x, s) == x \in Range(Split(s))

\* every enumeration of a finite set: the orders list(a_set) can produce
Orders(S) == {q \in [1..Cardinality(S) -> S] : Range(q) = S}

\* d[k] = v on a dict
Put(d, k, v) == [x \in DOMAIN d \cup {k} |-> IF x = k THEN v ELSE d[x]]

EmptyDict == [x \in {} |-> 0]

-----------------------------------------------------------------------------
(* CourseDataResolver *)

\* the code strings of an alias entry, every key but 'course_names', empty ones skipped
EntryCodeStrings(e) ==
    {s \in {e.default} \cup {e.cur[k] : k \in DOMAIN e.cur} : s # Empty}

\* the course ids an alias entry lists
EntryCourseIds(e) == UNION {Range(Split(s)) : s \in EntryCodeStrings(e)}

AllCourseIds(al) == UNION {EntryCourseIds(al[n]) : n \in 1..Len(al)}

\* __init__: the reverse map to details; the first entry that lists a code wins
BuildDetails(al) ==
    [c \in AllCourseIds(al) |->
        LET n == CHOOSE h \in 1..Len(al) :
                     /\ c \in EntryCourseIds(al[h])
                     /\ \A g \in 1..(h - 1) : c \notin EntryCourseIds(al[g])
        IN  [internal_code |-> al[n].code, name |-> al[n].name]]

\* __init__: the map to the internal code; the last entry that lists a code wins
BuildInternalCodes(al) ==
    [c \in AllCourseIds(al) |->
        LET n == CHOOSE h \in 1..Len(al) :
                     /\ c \in EntryCourseIds(al[h])
                     /\ \A g \in (h + 1)..Len(al) : c \notin EntryCourseIds(al[g])
        IN  al[n].code]

\* an element of courses_to_take: a details dict, a plain str, or {placeholder: options}
DetailsItem(c, d) ==
    [kind |-> "details", course_id |-> c, internal_code |-> d.internal_code,
     name |-> d.name, options |-> <<>>]
StrItem(c) ==
    [kind |-> "str", course_id |-> c, internal_code |-> NoCode, name |-> "", options |-> <<>>]
MajorItem(p, opts) ==
    [kind |-> "major", course_id |-> p, internal_code |-> NoCode, name |-> "", options |-> opts]

get_course_details(course_id, curriculum_id) ==
    IF course_id \in DOMAIN course_id_to_details
    THEN DetailsItem(course_id, course_id_to_details[course_id])
    ELSE StrItem(course_id)

get_internal_code(course_id) ==
    IF course_id \in DOMAIN course_id_to_internal_code
    THEN course_id_to_internal_code[course_id]
    ELSE NoCode

\* alias_data.get(curriculum_id, "")
CurriculumCourse(e, curriculum_id) ==
    IF curriculum_id \in DOMAIN e.cur THEN e.cur[curriculum_id] ELSE Empty

\* the loop of get_canonical_course over the alias table, from entry n on
RECURSIVE CanonicalFrom(_, _, _, _)
CanonicalFrom(al, n, student_course_id, curriculum_id) ==
    IF n > Len(al)
    THEN student_course_id
    ELSE LET curriculum_course == CurriculumCourse(al[n], curriculum_id)
             default_course == al[n].default
         IN  IF InSplit(student_course_id, curriculum_course)
             THEN curriculum_course
             ELSE IF InSplit(student_course_id, default_course)
                  THEN IF curriculum_course # Empty THEN curriculum_course ELSE default_course
                  ELSE CanonicalFrom(al, n + 1, student_course_id, curriculum_id)

\* the search get_canonical_course makes on a cache miss
CanonicalSearch(al, student_course_id, curriculum_id) ==
    CanonicalFrom(al, 1, student_course_id, curriculum_id)

\* f"{student_course_id}-{curriculum_id}"
CanonicalKey(student_course_id, curriculum_id) ==
    student_course_id \o Dash \o curriculum_id

\* get_canonical_course on a resolver whose cache is `cache`: the value returned
CanonicalValue(cache, student_course_id, curriculum_id) ==
    LET cache_key == CanonicalKey(student_course_id, curriculum_id)
    IN  IF cache_key \in DOMAIN cache
        THEN cache[cache_key]
        ELSE CanonicalSearch(aliases, student_course_id, curriculum_id)

\* get_canonical_course on a resolver whose cache is `cache`: the cache it leaves
CanonicalCacheAfter(cache, student_course_id, curriculum_id) ==
    LET cache_key == CanonicalKey(student_course_id, curriculum_id)
    IN  IF cache_key \in DOMAIN cache
        THEN cache
        ELSE Put(cache, cache_key, CanonicalSearch(aliases, student_course_id, curriculum_id))

\* CourseDataResolver._offerings: config/1s.json, 2s.json, ss.json as sets of numeric ids
Offerings(semester) ==
    IF semester = <<"1">> THEN {1, 3, 5, 9}
    ELSE IF semester = <<"2">> THEN {1, 2, 4, 6}
    ELSE IF semester = <<"s">> THEN {1, 2}
    ELSE {}

\* f"{semester}-{curriculum_id}"
OfferingKey(semester, curriculum_id) == semester \o Dash \o curriculum_id

\* the body of _resolve_offering_for_curriculum on a cache miss
ResolveOffering(al, semester, curriculum_id) ==
    UNION {LET curriculum_course == CurriculumCourse(al[n], curriculum_id)
               course_code == IF curriculum_course # Empty
                              THEN curriculum_course ELSE al[n].default
           IN  IF course_code # Empty THEN Range(Split(course_code)) ELSE {}
           : n \in {h \in 1..Len(al) : al[h].code \in Offerings(semester)}}

\* get_offerings on a resolver whose offering cache is `cache`: the set returned
get_offerings(cache, semester, curriculum_id) ==
    LET offering_key == OfferingKey(semester, curriculum_id)
    IN  IF offering_key \in DOMAIN cache
        THEN cache[offering_key]
        ELSE ResolveOffering(aliases, semester, curriculum_id)

\* get_offerings on a resolver whose offering cache is `cache`: the cache it leaves
OfferingCacheAfter(cache, semester, curriculum_id) ==
    LET offering_key == OfferingKey(semester, curriculum_id)
    IN  IF offering_key \in DOMAIN cache
        THEN cache
        ELSE Put(cache, offering_key, ResolveOffering(aliases, semester, curriculum_id))

-----------------------------------------------------------------------------
(* Curricula: config/BScIT*.json *)

NoPg == "<unset>"

CoreItem(c, sem, pre, pg) ==
    [kind |-> "course", course |-> c, placeholder |-> Empty, options |-> <<>>,
     semester |-> sem, pre |-> pre, pg |-> pg]
ChoiceItem(p, opts, sem, pre, pg) ==
    [kind |-> "choice", course |-> Empty, placeholder |-> p, options |-> opts,
     semester |-> sem, pre |-> pre, pg |-> pg]

\* item.get('pg', 'D')
PgOf(item) == IF item.pg = NoPg THEN "D" ELSE item.pg

\* the items of curriculum['courses'] that have a 'course' key, resp. a 'choice' key
CoreIndexes(curriculum) ==
    {n \in 1..Len(curriculum.courses) : curriculum.courses[n].kind = "course"}
ChoiceIndexes(curriculum) ==
    {n \in 1..Len(curriculum.courses) : curriculum.courses[n].kind = "choice"}

Max(S) == CHOOSE n \in S : \A m \in S : m <= n

\* core_map = {item['course']: item ...}: a later item with the same key replaces an earlier one
CoreMap(curriculum) ==
    [c \in {curriculum.courses[n].course : n \in CoreIndexes(curriculum)} |->
        curriculum.courses[Max({n \in CoreIndexes(curriculum) :
                                    curriculum.courses[n].course = c})]]

\* choice_map = {item['choice']['placeholder']: item ...}
ChoiceMap(curriculum) ==
    [p \in {curriculum.courses[n].placeholder : n \in ChoiceIndexes(curriculum)} |->
        curriculum.courses[Max({n \in ChoiceIndexes(curriculum) :
                                    curriculum.courses[n].placeholder = p})]]

\* the keys of choice_map in dict order: the order of their first insertion
RECURSIVE ChoiceOrderFrom(_, _, _)
ChoiceOrderFrom(curriculum, n, seen) ==
    IF n > Len(curriculum.courses) THEN <<>>
    ELSE LET it == curriculum.courses[n]
         IN  IF it.kind = "choice" /\ it.placeholder \notin seen
             THEN <<it.placeholder>> \o
                  ChoiceOrderFrom(curriculum, n + 1, seen \cup {it.placeholder})
             ELSE ChoiceOrderFrom(curriculum, n + 1, seen)
ChoiceOrder(curriculum) == ChoiceOrderFrom(curriculum, 1, {})

\* major_electives_map: the pool courses
MajorElectiveCourses(curriculum) ==
    {curriculum.major_electives.courses[n].course :
        n \in 1..Len(curriculum.major_electives.courses)}

-----------------------------------------------------------------------------
(* get_student_progress *)

\* grade_order.get(label, 0)
GradeRank(go, label) == IF label \in DOMAIN go THEN go[label] ELSE 0

\* mutant of is_grade_passing: the grade is compared with the baseline 'D'
is_grade_passing_Baseline(grade, passing_grade, go) ==
    GradeRank(go, grade) >= GradeRank(go, "D")

is_grade_passing(grade, passing_grade, go) ==
    GradeRank(go, grade) >= GradeRank(go, passing_grade)

\* the first choice group, in dict order, that lists canonical_id; Empty when none does
RECURSIVE FirstChoiceFrom(_, _, _, _)
FirstChoiceFrom(cm, order, n, canonical_id) ==
    IF n > Len(order) THEN Empty
    ELSE IF canonical_id \in Range(cm[order[n]].options)
         THEN order[n]
         ELSE FirstChoiceFrom(cm, order, n + 1, canonical_id)

\* the category one record falls in: "core", "major", "choice" or "none"
Category(curriculum, canonical_id) ==
    IF canonical_id \in DOMAIN CoreMap(curriculum) THEN "core"
    ELSE IF canonical_id \in MajorElectiveCourses(curriculum) THEN "major"
    ELSE IF FirstChoiceFrom(ChoiceMap(curriculum), ChoiceOrder(curriculum), 1,
                            canonical_id) # Empty THEN "choice"
    ELSE "none"

\* get_student_progress; `cache` is the resolver's canonical cache at the call.
\* The records of one student are canonicalized under one curriculum id, so no two of
\* them share a cache key and the order of the records does not matter.
get_student_progress(student_courses, curriculum, go, cache) ==
    LET curriculum_id == curriculum.curriculum_name
        core_map == CoreMap(curriculum)
        choice_map == ChoiceMap(curriculum)
        major_pg == PgOf(curriculum.major_electives)
        canon(c) == CanonicalValue(cache, c, curriculum_id)
        cat(c) == Category(curriculum, canon(c))
        recs == DOMAIN student_courses
    IN  [passed_courses |->
            {canon(c) : c \in {d \in recs : /\ cat(d) = "core"
                                            /\ is_grade_passing(student_courses[d],
                                                   PgOf(core_map[canon(d)]), go)}},
         failed_courses |->
            {canon(c) : c \in {d \in recs : /\ cat(d) = "core"
                                            /\ ~is_grade_passing(student_courses[d],
                                                   PgOf(core_map[canon(d)]), go)}},
         passed_choices |->
            {FirstChoiceFrom(choice_map, ChoiceOrder(curriculum), 1, canon(c)) :
                c \in {d \in recs :
                         /\ cat(d) = "choice"
                         /\ is_grade_passing(student_courses[d],
                                PgOf(choice_map[FirstChoiceFrom(choice_map,
                                    ChoiceOrder(curriculum), 1, canon(d))]), go)}},
         major_electives_passed |->
            {canon(c) : c \in {d \in recs : /\ cat(d) = "major"
                                            /\ is_grade_passing(student_courses[d],
                                                   major_pg, go)}},
         \* set to 0 before the loop and assigned nowhere else
         free_electives_passed_count |-> 0,
         passed_internal_codes |->
            {get_internal_code(c) :
                c \in {d \in recs : /\ get_internal_code(d) # NoCode
                                    /\ is_grade_passing(student_courses[d], "D", go)}}]

\* the canonical cache after get_student_progress
ProgressCacheAfter(cache, student_courses, curriculum) ==
    LET curriculum_id == curriculum.curriculum_name
        keys == {CanonicalKey(c, curriculum_id) : c \in DOMAIN student_courses}
    IN  [key \in DOMAIN cache \cup keys |->
            IF key \in DOMAIN cache THEN cache[key]
            ELSE LET c == CHOOSE d \in DOMAIN student_courses :
                              CanonicalKey(d, curriculum_id) = key
                 IN  CanonicalSearch(aliases, c, curriculum_id)]

-----------------------------------------------------------------------------
(* generate_forecast *)

S1 == <<"1">>
S2 == <<"2">>
SS == <<"s">>

\* the literal "free-elective"
FreeElective == <<"f", "r", "e", "e", "-", "e", "l", "e", "c", "t", "i", "v", "e">>

\* set(item.get('pre', []))
PreOf(item) == Range(item.pre)

\* the locals of generate_forecast after the code that precedes the simulation loop;
\* `curriculum_id` is the student's curriculum key, `cache` the canonical cache at the call
ForecastBegin(student_id, student_data, all_curricula, go, cal, cache) ==
    LET curriculum_id == student_data.curriculum
        curriculum == all_curricula[curriculum_id]
        pr == get_student_progress(student_data.courses, curriculum, go, cache)
        core_map == CoreMap(curriculum)
        choice_map == ChoiceMap(curriculum)
    IN  [student_id |-> student_id,
         curriculum_id |-> curriculum_id,
         passed_core |-> pr.passed_courses,
         failed_core |-> pr.failed_courses,
         passed_choices |-> pr.passed_choices,
         passed_major |-> pr.major_electives_passed,
         passed_free_count |-> pr.free_electives_passed_count,
         passed_internal_codes |-> pr.passed_internal_codes,
         pending_core |-> {c \in DOMAIN core_map :
                              c \notin pr.passed_courses /\ c \notin pr.failed_courses},
         pending_choices |-> {p \in DOMAIN choice_map : p \notin pr.passed_choices},
         pending_major_slots |->
             Len(curriculum.major_electives.slots) - Cardinality(pr.major_electives_passed),
         pending_free_slots |->
             Len(curriculum.free_electives.slots) - pr.free_electives_passed_count,
         forecast |-> <<>>,
         forecast_passed |->
             pr.passed_courses \cup pr.major_electives_passed \cup pr.passed_choices,
         retake_courses |-> pr.failed_courses,
         forecasted_internal_codes |-> {},
         year |-> cal.current_year,
         semester |-> cal.current_semester,
         i |-> 0]

\* available_major_courses: the pool courses not passed, in pool order
AvailableMajorCourses(curriculum, passed_major) ==
    SelectSeq(curriculum.major_electives.courses, LAMBDA c : c.course \notin passed_major)

SEMESTERS_PER_YEAR == 3
EpochYear == 2023
YEARS == 6

SemInYear(f) == ((f.semester - 1 + f.i) % SEMESTERS_PER_YEAR) + 1
AcademicYear(f) == f.year + ((f.semester - 1 + f.i) \div SEMESTERS_PER_YEAR)
SemStr(f) == IF SemInYear(f) = 1 THEN S1 ELSE IF SemInYear(f) = 2 THEN S2 ELSE SS
CurrentSemesterNum(f) ==
    ((f.year - EpochYear) * SEMESTERS_PER_YEAR) + SemInYear(f)
        + ((f.i \div SEMESTERS_PER_YEAR) * 2)

\* mutant of RetakeSchedulable: the prerequisites are not looked at
RetakeSchedulable_NoPrerequisites(course, core_map, offerings, forecast_passed, passed_codes, forecasted) ==
    /\ course \in offerings
    /\ get_internal_code(course) \notin passed_codes
    /\ get_internal_code(course) \notin forecasted

\* the test a retake course must pass to be scheduled
RetakeSchedulable(course, core_map, offerings, forecast_passed, passed_codes, forecasted) ==
    /\ course \in offerings
    /\ PreOf(core_map[course]) \subseteq forecast_passed
    /\ get_internal_code(course) \notin passed_codes
    /\ get_internal_code(course) \notin forecasted

\* mutant of CoreSchedulable: the codes forecast so far are not looked at
CoreSchedulable_NoForecastCodes(course, core_map, num, offerings, forecast_passed, passed_codes, forecasted) ==
    /\ core_map[course].semester = num
    /\ PreOf(core_map[course]) \subseteq forecast_passed
    /\ course \in offerings
    /\ get_internal_code(course) \notin passed_codes

\* mutant of CoreSchedulable: the offering set of the term is not looked at
CoreSchedulable_NoOfferings(course, core_map, num, offerings, forecast_passed, passed_codes, forecasted) ==
    /\ core_map[course].semester = num
    /\ PreOf(core_map[course]) \subseteq forecast_passed
    /\ get_internal_code(course) \notin passed_codes
    /\ get_internal_code(course) \notin forecasted

\* the test a pending core course must pass to be scheduled
CoreSchedulable(course, core_map, num, offerings, forecast_passed, passed_codes, forecasted) ==
    /\ core_map[course].semester = num
    /\ PreOf(core_map[course]) \subseteq forecast_passed
    /\ course \in offerings
    /\ get_internal_code(course) \notin passed_codes
    /\ get_internal_code(course) \notin forecasted

\* for course in list(retake_courses): acc = [take, left, codes]
RECURSIVE RetakeLoop(_, _, _, _, _, _)
RetakeLoop(order, n, acc, f, core_map, offerings) ==
    IF n > Len(order) THEN acc
    ELSE LET course == order[n]
         IN  IF RetakeSchedulable(course, core_map, offerings, f.forecast_passed,
                                  f.passed_internal_codes, acc.codes)
             THEN RetakeLoop(order, n + 1,
                      [take |-> Append(acc.take, get_course_details(course, f.curriculum_id)),
                       left |-> acc.left \ {course},
                       codes |-> acc.codes \cup {get_internal_code(course)}],
                      f, core_map, offerings)
             ELSE RetakeLoop(order, n + 1, acc, f, core_map, offerings)

\* for course in list(pending_core): acc = [take, left, codes]
RECURSIVE CoreLoop(_, _, _, _, _, _, _)
CoreLoop(order, n, acc, f, core_map, offerings, num) ==
    IF n > Len(order) THEN acc
    ELSE LET course == order[n]
         IN  IF CoreSchedulable(course, core_map, num, offerings, f.forecast_passed,
                                f.passed_internal_codes, acc.codes)
             THEN CoreLoop(order, n + 1,
                      [take |-> Append(acc.take, get_course_details(course, f.curriculum_id)),
                       left |-> acc.left \ {course},
                       codes |-> acc.codes \cup {get_internal_code(course)}],
                      f, core_map, offerings, num)
             ELSE CoreLoop(order, n + 1, acc, f, core_map, offerings, num)

\* for p_holder in list(pending_choices): acc = [take, left]
RECURSIVE ChoiceLoop(_, _, _, _, _, _)
ChoiceLoop(order, n, acc, f, choice_map, num) ==
    IF n > Len(order) THEN acc
    ELSE LET p_holder == order[n]
         IN  IF /\ choice_map[p_holder].semester = num
                /\ PreOf(choice_map[p_holder]) \subseteq f.forecast_passed
             THEN ChoiceLoop(order, n + 1,
                      [take |-> Append(acc.take, StrItem(p_holder)),
                       left |-> acc.left \ {p_holder}],
                      f, choice_map, num)
             ELSE ChoiceLoop(order, n + 1, acc, f, choice_map, num)

\* for c in available_major_courses: acc = [options, codes]
RECURSIVE OptionsLoop(_, _, _, _, _, _, _)
OptionsLoop(avail, n, acc, f, offerings, forecast_passed, forecasted) ==
    IF n > Len(avail) THEN acc
    ELSE LET c == avail[n]
             internal_code == get_internal_code(c.course)
         IN  IF /\ Range(c.pre) \subseteq forecast_passed
                /\ c.course \in offerings
                /\ internal_code \notin f.passed_internal_codes
                /\ internal_code \notin forecasted
                /\ internal_code \notin acc.codes
             THEN OptionsLoop(avail, n + 1,
                      [options |-> Append(acc.options,
                                          get_course_details(c.course, f.curriculum_id)),
                       codes |-> acc.codes \cup {internal_code}],
                      f, offerings, forecast_passed, forecasted)
             ELSE OptionsLoop(avail, n + 1, acc, f, offerings, forecast_passed, forecasted)

\* for slot in major_slots_this_sem: acc = [take, pending, passed]
RECURSIVE MajorLoop(_, _, _, _, _, _, _)
MajorLoop(slots, n, acc, f, avail, offerings, forecasted) ==
    IF n > Len(slots) THEN acc
    ELSE LET opts == OptionsLoop(avail, 1, [options |-> <<>>, codes |-> {}], f,
                                 offerings, acc.passed, forecasted).options
         IN  IF acc.pending > 0 /\ opts # <<>>
             THEN MajorLoop(slots, n + 1,
                      [take |-> Append(acc.take, MajorItem(slots[n].placeholder, opts)),
                       pending |-> acc.pending - 1,
                       passed |-> acc.passed \cup {slots[n].placeholder}],
                      f, avail, offerings, forecasted)
             ELSE MajorLoop(slots, n + 1, acc, f, avail, offerings, forecasted)

\* for slot in free_slots_this_sem: acc = [take, pending, passed]
RECURSIVE FreeLoop(_, _, _)
FreeLoop(slots, n, acc) ==
    IF n > Len(slots) THEN acc
    ELSE IF acc.pending > 0
         THEN FreeLoop(slots, n + 1,
                  [take |-> Append(acc.take, StrItem(FreeElective)),
                   pending |-> acc.pending - 1,
                   passed |-> acc.passed \cup {slots[n].placeholder}])
         ELSE FreeLoop(slots, n + 1, acc)

\* what the loop after the append adds to forecast_passed
PassedByItems(take) ==
    {take[n].course_id : n \in {h \in 1..Len(take) : take[h].kind \in {"details", "str"}}}

\* one iteration of the simulation loop: the locals after it.  `offerings` is what
\* get_offerings returned; ro, po, co are the orders in which list(retake_courses),
\* list(pending_core) and list(pending_choices) enumerate their sets
TermStep(f, all_curricula, offerings, ro, po, co) ==
    LET curriculum == all_curricula[f.curriculum_id]
        core_map == CoreMap(curriculum)
        choice_map == ChoiceMap(curriculum)
        num == CurrentSemesterNum(f)
        r1 == RetakeLoop(ro, 1, [take |-> <<>>, left |-> f.retake_courses,
                                 codes |-> f.forecasted_internal_codes],
                         f, core_map, offerings)
        r2 == CoreLoop(po, 1, [take |-> r1.take, left |-> f.pending_core,
                               codes |-> r1.codes],
                       f, core_map, offerings, num)
        r3 == ChoiceLoop(co, 1, [take |-> r2.take, left |-> f.pending_choices],
                         f, choice_map, num)
        r4 == MajorLoop(SelectSeq(curriculum.major_electives.slots,
                                  LAMBDA s : s.semester = num),
                        1, [take |-> r3.take, pending |-> f.pending_major_slots,
                            passed |-> f.forecast_passed],
                        f, AvailableMajorCourses(curriculum, f.passed_major),
                        offerings, r2.codes)
        r5 == FreeLoop(SelectSeq(curriculum.free_electives.slots,
                                 LAMBDA s : s.semester = num),
                       1, [take |-> r4.take, pending |-> f.pending_free_slots,
                           passed |-> r4.passed])
        courses_to_take == r5.take
    IN  [f EXCEPT
            !.retake_courses = r1.left,
            !.pending_core = r2.left,
            !.forecasted_internal_codes = r2.codes,
            !.pending_choices = r3.left,
            !.pending_major_slots = r4.pending,
            !.pending_free_slots = r5.pending,
            !.forecast = IF courses_to_take # <<>>
                         \* the label f"{y}-{y + 1}" is represented by y, str(n) by n
                         THEN Append(@, [academic_year |-> AcademicYear(f),
                                         semester |-> SemInYear(f),
                                         courses |-> courses_to_take])
                         ELSE @,
            !.forecast_passed = r5.passed \cup PassedByItems(courses_to_take),
            !.i = f.i + 1]

\* the record generate_forecast returns for a student whose curriculum is loaded
ForecastResult(f) ==
    [passed_courses |-> f.passed_core \cup f.passed_major \cup f.passed_choices,
     failed_courses_to_retake |-> f.failed_core,
     pending_core_courses |-> f.pending_core \cup f.retake_courses,
     pending_choice_placeholders |-> f.pending_choices,
     pending_major_electives |-> f.pending_major_slots,
     pending_free_electives |-> f.pending_free_slots,
     forecast |-> f.forecast]

\* mutant of ErrorResult: the error record also carries an empty forecast
ErrorResult_WithForecast(curriculum_id) == [error |-> curriculum_id, forecast |-> <<>>]

\* the record generate_forecast returns when the curriculum is unset or not loaded
\* (the message is represented by the curriculum id it quotes)
ErrorResult(curriculum_id) == [error |-> curriculum_id]

\* not curriculum_id or curriculum_id not in all_curricula
CurriculumMissing(student_data, all_curricula) ==
    student_data.curriculum = Empty \/ student_data.curriculum \notin DOMAIN all_curricula

-----------------------------------------------------------------------------
(* The configurations and student batches the model is run on *)

CX == <<"x">>
CV == <<"v">>
CY == <<"y">>
CZ == <<"z">>
CM == <<"m">>
CN == <<"n">>
CC == <<"c">>
CW == <<"w">>
CXV == <<"x", "/", "v">>
CX1 == <<"x", "-", "1">>
PP == <<"P">>
PQ == <<"Q">>
PR == <<"R">>
PG == <<"G">>

\* curriculum ids
KA == <<"A">>
KB == <<"1", "-", "A">>
KU == <<"U">>

NoElectives == [courses |-> <<>>, slots |-> <<>>, pg |-> NoPg]

\* all_curricula: two loaded curricula; a block a curriculum file leaves out is
\* the block with no courses, no slots and no passing grade
AllCurricula ==
    (KA :> [curriculum_name |-> KA,
            courses |-> <<CoreItem(CX, 1, <<>>, "C"),
                          CoreItem(CV, 1, <<>>, NoPg),
                          CoreItem(CZ, 2, <<CX>>, NoPg),
                          ChoiceItem(PP, <<CC>>, 2, <<>>, NoPg)>>,
            major_electives |->
                [courses |-> <<[course |-> CM, pre |-> <<>>],
                               [course |-> CN, pre |-> <<>>]>>,
                 slots |-> <<[placeholder |-> PQ, semester |-> 3],
                             [placeholder |-> PR, semester |-> 3]>>,
                 pg |-> NoPg],
            free_electives |->
                [courses |-> <<>>,
                 slots |-> <<[placeholder |-> PG, semester |-> 4]>>,
                 pg |-> NoPg]])
    @@
    (KB :> [curriculum_name |-> KB,
            courses |-> <<CoreItem(CY, 1, <<>>, "F"),
                          CoreItem(CZ, 3, <<CY>>, NoPg)>>,
            major_electives |-> NoElectives,
            free_electives |->
                [courses |-> <<>>,
                 slots |-> <<[placeholder |-> PG, semester |-> 2]>>,
                 pg |-> NoPg]])

\* an alias table: entry 1 groups x (curriculum A) and y (curriculum B); its default
\* code and its code for A vary; a last entry that lists v again may be present
AliasTable(default1, a1, dup) ==
    <<[code |-> 1, name |-> "n1", default |-> default1, cur |-> (KA :> a1 @@ KB :> CY)],
      [code |-> 2, name |-> "n2", default |-> CZ, cur |-> EmptyDict],
      [code |-> 3, name |-> "n3", default |-> CM, cur |-> EmptyDict],
      [code |-> 4, name |-> "n4", default |-> CN, cur |-> EmptyDict],
      [code |-> 5, name |-> "n5", default |-> CC, cur |-> EmptyDict]>>
    \o (IF dup THEN <<[code |-> 6, name |-> "n6", default |-> CV, cur |-> EmptyDict]>>
        ELSE <<>>)

AliasTables ==
    {AliasTable(Empty, CX, FALSE), AliasTable(CX, CX, FALSE),
     AliasTable(CX, CXV, FALSE), AliasTable(CX, CXV, TRUE),
     AliasTable(CW, CX, FALSE)}

GradeOrder == ("F" :> 0) @@ ("D" :> 1) @@ ("C" :> 2) @@ ("B" :> 3) @@ ("A" :> 4)

\* the grades of student records; "W" is a label the grade order does not have
Grades == {"F", "D", "B", "W"}

\* config["current_year"] (its first year) and config["current_semester"]
Calendars ==
    {[current_year |-> 2023, current_semester |-> 1],
     [current_year |-> 2023, current_semester |-> 3],
     [current_year |-> 2024, current_semester |-> 2]}

HistoryCourses == {CX, CY, CZ, CM, CC, CW}

\* the course dicts with at most n records
Histories(courses, n) ==
    UNION {[S -> Grades] : S \in {T \in SUBSET courses : Cardinality(T) <= n}}

\* one student alone: any history of at most MaxRecords records under a loaded
\* curriculum, or a student whose curriculum is unset or not loaded
SingleStudents ==
    {[curriculum |-> k, courses |-> h] :
        k \in {KA, KB}, h \in Histories(HistoryCourses, MaxRecords)}
    \cup {[curriculum |-> k, courses |-> h] :
             k \in {Empty, KU}, h \in Histories(HistoryCourses, 1)}

\* the students of a batch of several
BatchStudents ==
    {[curriculum |-> k, courses |-> h] :
        k \in {KA, KB}, h \in {CX :> "B", CX :> "F", CX1 :> "B"}}
    \cup {[curriculum |-> k, courses |-> (CX :> "B")] : k \in {Empty, KU}}

\* students.json with one student, and with several; student ids are the positions
SingleBatches ==
    {<<[id |-> 1, curriculum |-> st.curriculum, courses |-> st.courses]>> :
        st \in SingleStudents}
MultiBatches ==
    UNION {{[n \in 1..len |-> [id |-> n, curriculum |-> q[n].curriculum,
                                courses |-> q[n].courses]] :
               q \in [1..len -> BatchStudents]} : len \in 2..MaxStudents}

\* the alias tables and the calendar the batches of several students are run on
BatchTables == {AliasTable(Empty, CX, FALSE), AliasTable(CX, CX, FALSE)}
BatchCalendar == [current_year |-> 2023, current_semester |-> 1]

NoFrame == [student_id |-> 0]
NoCall == [n |-> 0]

InitResolver(al) ==
    /\ aliases = al
    /\ course_id_to_details = BuildDetails(al)
    /\ course_id_to_internal_code = BuildInternalCodes(al)
    /\ canonical_cache = EmptyDict
    /\ offering_cache = EmptyDict

InitBatch(batch) ==
    /\ students_data = batch
    /\ full_forecast = EmptyDict
    /\ pos = 1
    /\ pc = "idle"
    /\ fc = NoFrame
    /\ last_call = NoCall

\* main(): the state before the first generate_forecast call
Init ==
    /\ grade_order = GradeOrder
    /\ \/ /\ \E al \in AliasTables : InitResolver(al)
          /\ calendar \in Calendars
          /\ \E batch \in SingleBatches : InitBatch(batch)
       \/ /\ \E al \in BatchTables : InitResolver(al)
          /\ calendar = BatchCalendar
          /\ \E batch \in MultiBatches : InitBatch(batch)

-----------------------------------------------------------------------------
(* main(): one generate_forecast call per student, in dict order *)

Student == students_data[pos]

\* generate_forecast returns the error record
GenerateForecastError ==
    /\ pc = "idle"
    /\ pos <= Len(students_data)
    /\ CurriculumMissing(Student, AllCurricula)
    /\ full_forecast' = Put(full_forecast, Student.id, ErrorResult(Student.curriculum))
    /\ pos' = pos + 1
    /\ UNCHANGED <<aliases, course_id_to_details, course_id_to_internal_code,
                   canonical_cache, offering_cache, grade_order, calendar,
                   students_data, pc, fc, last_call>>

\* generate_forecast up to the simulation loop
GenerateForecastBegin ==
    /\ pc = "idle"
    /\ pos <= Len(students_data)
    /\ ~CurriculumMissing(Student, AllCurricula)
    /\ fc' = ForecastBegin(Student.id, Student, AllCurricula, grade_order, calendar,
                           canonical_cache)
    /\ canonical_cache' = ProgressCacheAfter(canonical_cache, Student.courses,
                                             AllCurricula[Student.curriculum])
    /\ pc' = "loop"
    /\ UNCHANGED <<aliases, course_id_to_details, course_id_to_internal_code,
                   offering_cache, grade_order, calendar, students_data,
                   full_forecast, pos, last_call>>

\* mutant of Horizon: one more simulated year
Horizon_Longer == SEMESTERS_PER_YEAR * (YEARS + 1)

\* range(SEMESTERS_PER_YEAR * 6): the number of iterations of the simulation loop
Horizon == SEMESTERS_PER_YEAR * YEARS

\* one iteration of the simulation loop
SimulateTerm ==
    /\ pc = "loop"
    /\ fc.i < Horizon
    /\ \E ro \in Orders(fc.retake_courses), po \in Orders(fc.pending_core),
          co \in Orders(fc.pending_choices) :
           fc' = TermStep(fc, AllCurricula,
                          get_offerings(offering_cache, SemStr(fc), fc.curriculum_id),
                          ro, po, co)
    /\ offering_cache' = OfferingCacheAfter(offering_cache, SemStr(fc), fc.curriculum_id)
    /\ UNCHANGED <<aliases, course_id_to_details, course_id_to_internal_code,
                   canonical_cache, grade_order, calendar, students_data,
                   full_forecast, pos, pc, last_call>>

\* generate_forecast returns the result record; main() stores it
GenerateForecastReturn ==
    /\ pc = "loop"
    /\ fc.i = Horizon
    /\ full_forecast' = Put(full_forecast, fc.student_id, ForecastResult(fc))
    /\ pos' = pos + 1
    /\ pc' = "idle"
    /\ fc' = NoFrame
    /\ UNCHANGED <<aliases, course_id_to_details, course_id_to_internal_code,
                   canonical_cache, offering_cache, grade_order, calendar,
                   students_data, last_call>>

Next ==
    \/ GenerateForecastError
    \/ GenerateForecastBegin
    \/ SimulateTerm
    \/ GenerateForecastReturn

Spec == Init /\ [][Next]_vars

\* students.json with one student whose history has at most one record
ShortBatches ==
    {<<[id |-> 1, curriculum |-> k, courses |-> h]>> :
        k \in {KA, KB, Empty, KU}, h \in Histories(HistoryCourses, 1)}

InitShort ==
    /\ grade_order = GradeOrder
    /\ \E al \in AliasTables : InitResolver(al)
    /\ calendar \in Calendars
    /\ \E batch \in ShortBatches : InitBatch(batch)

\* generate_forecast and main() are straight-line code and loops over finite lists:
\* a step that can be taken is taken
SpecFair == InitShort /\ [][Next]_vars /\ WF_vars(Next)

-----------------------------------------------------------------------------
(* generate_forecast as a whole: every result the simulation loop can produce *)

\* the locals after the last iteration, for every order in which the loop's
\* list(...) calls can enumerate their sets; offerings are resolved without a cache
RECURSIVE RunFrom(_)
RunFrom(F) ==
    IF \A f \in F : f.i = Horizon
    THEN F
    ELSE RunFrom(UNION {
            {TermStep(f, AllCurricula,
                      ResolveOffering(aliases, SemStr(f), f.curriculum_id), ro, po, co) :
                ro \in Orders(f.retake_courses), po \in Orders(f.pending_core),
                co \in Orders(f.pending_choices)} : f \in F})

\* the results generate_forecast can return for a student on a resolver whose
\* canonical cache is `cache`
PossibleResults(student_data, cache) ==
    {ForecastResult(f) :
        f \in RunFrom({ForecastBegin(student_data.id, student_data, AllCurricula,
                                     grade_order, calendar, cache)})}

-----------------------------------------------------------------------------
(* Vocabulary of the properties *)

\* the batch is finished
BatchDone == pc = "idle" /\ pos > Len(students_data)

\* student n has a result, and it is not the error record
Forecasted(n) ==
    /\ n < pos
    /\ "error" \notin DOMAIN full_forecast[students_data[n].id]

ResultOf(n) == full_forecast[students_data[n].id]

\* the internal codes of the records with a grade of rank >= rank('D')
SatisfiedCodes(student_data) ==
    {get_internal_code(c) :
        c \in {d \in DOMAIN student_data.courses :
                  /\ get_internal_code(d) # NoCode
                  /\ GradeRank(grade_order, student_data.courses[d])
                         >= GradeRank(grade_order, "D")}}

\* the places <<entry, item>> of a forecast that hold a core course of curriculum k
\* (scheduled as a retake or as a pending core course)
CorePlaces(forecast, k) ==
    {pl \in UNION {{<<e, j>> : j \in 1..Len(forecast[e].courses)} : e \in 1..Len(forecast)} :
        /\ forecast[pl[1]].courses[pl[2]].kind \in {"details", "str"}
        /\ forecast[pl[1]].courses[pl[2]].course_id \in DOMAIN CoreMap(AllCurricula[k])}

CourseAt(forecast, pl) == forecast[pl[1]].courses[pl[2]].course_id

\* the core courses a forecast schedules
ScheduledCore(forecast, k) == {CourseAt(forecast, pl) : pl \in CorePlaces(forecast, k)}

-----------------------------------------------------------------------------
(* C1 *)

\* C1 (as claimed): if the history holds a record of rank >= rank('D') for a course
\* code whose internal code is k, no course code of internal code k is reported in
\* pending_core_courses.
C1_NoSatisfiedCodePending ==
    \A n \in 1..Len(students_data) :
        Forecasted(n) =>
            \A p \in ResultOf(n).pending_core_courses :
                get_internal_code(p) \notin SatisfiedCodes(students_data[n])

(* C2 *)

\* C2: every core or retake course in the forecast has an internal code that is not
\* in the satisfied-internal-codes set of the history and differs from the internal
\* code of every other core or retake course scheduled in the same simulation.
C2_NoCodeScheduledTwice ==
    pc = "loop" =>
        \A a \in CorePlaces(fc.forecast, fc.curriculum_id) :
            /\ get_internal_code(CourseAt(fc.forecast, a)) \notin SatisfiedCodes(Student)
            /\ \A b \in CorePlaces(fc.forecast, fc.curriculum_id) :
                   b # a => get_internal_code(CourseAt(fc.forecast, b))
                                # get_internal_code(CourseAt(fc.forecast, a))

\* C2 witness: the simulation is over, a core course is in the forecast and another
\* core course of the same internal code was left pending.
C2_Witness ==
    /\ pc = "loop"
    /\ fc.i = Horizon
    /\ \E a \in ScheduledCore(fc.forecast, fc.curriculum_id), b \in fc.pending_core :
           /\ get_internal_code(a) # NoCode
           /\ get_internal_code(a) = get_internal_code(b)

(* C3 *)

\* the core courses the step from f to g puts in the forecast
NewlyScheduled(f, g) ==
    IF Len(g.forecast) > Len(f.forecast)
    THEN ScheduledCore(<<g.forecast[Len(g.forecast)]>>, f.curriculum_id)
    ELSE {}

\* C3: whenever a simulated term schedules a core or retake course, each of its
\* declared prerequisites is in forecast_passed at that moment; and a core course
\* that was not passed and has a prerequisite that is not in forecast_passed is in
\* no forecast term and is still pending (as pending core or as a retake).
C3_PrerequisitesFirst ==
    /\ [][(pc = "loop" /\ pc' = "loop") =>
            \A c \in NewlyScheduled(fc, fc') :
                PreOf(CoreMap(AllCurricula[fc.curriculum_id])[c]) \subseteq fc.forecast_passed]_vars
    /\ [](pc = "loop" =>
            \A c \in DOMAIN CoreMap(AllCurricula[fc.curriculum_id]) :
                (/\ c \notin fc.passed_core
                 /\ ~(PreOf(CoreMap(AllCurricula[fc.curriculum_id])[c])
                          \subseteq fc.forecast_passed))
                => /\ c \notin ScheduledCore(fc.forecast, fc.curriculum_id)
                   /\ c \in ForecastResult(fc).pending_core_courses)

\* C3 witness: the simulation is over; one core course with a declared prerequisite
\* was scheduled, in a term later than its prerequisite.
C3_Witness ==
    /\ pc = "loop"
    /\ fc.i = Horizon
    /\ \E a, b \in CorePlaces(fc.forecast, fc.curriculum_id) :
           /\ a[1] < b[1]
           /\ CourseAt(fc.forecast, a)
                  \in PreOf(CoreMap(AllCurricula[fc.curriculum_id])[CourseAt(fc.forecast, b)])

(* C4 *)

\* the records of a history that match no core requirement, no pool course and no
\* choice option, and whose grade passes the free-elective block's passing grade
FreeElectivePasses(student_data) ==
    LET curriculum == AllCurricula[student_data.curriculum]
    IN  {c \in DOMAIN student_data.courses :
            /\ Category(curriculum, CanonicalValue(canonical_cache, c,
                                                   curriculum.curriculum_name)) = "none"
            /\ GradeRank(grade_order, student_data.courses[c])
                   >= GradeRank(grade_order, PgOf(curriculum.free_electives))}

\* the free-elective markers in a forecast
FreeElectivePlaces(forecast) ==
    {pl \in UNION {{<<e, j>> : j \in 1..Len(forecast[e].courses)} : e \in 1..Len(forecast)} :
        forecast[pl[1]].courses[pl[2]] = StrItem(FreeElective)}

\* C4 (as claimed): the remaining free-elective slot count is the number of
\* configured slots minus the number of passed records that match no requirement
\* minus the free-elective slots emitted in the forecast.
C4_FreeElectiveAccounting ==
    pc = "loop" =>
        fc.pending_free_slots =
            Len(AllCurricula[fc.curriculum_id].free_electives.slots)
                - Cardinality(FreeElectivePasses(Student))
                - Cardinality(FreeElectivePlaces(fc.forecast))

(* C5 *)

\* the value get_canonical_course returned for a record of the current student
CanonicalOf(c) ==
    CanonicalValue(canonical_cache, c, AllCurricula[fc.curriculum_id].curriculum_name)

\* C5: every course in passed_core has a record that canonicalizes to it with a
\* grade of rank >= the rank of the course's passing grade (default 'D'); every
\* record that canonicalizes to a core course with a grade of lower rank puts the
\* course in failed_core.
C5_CoreClassification ==
    pc = "loop" =>
        LET core_map == CoreMap(AllCurricula[fc.curriculum_id])
            courses == Student.courses
        IN  /\ \A c \in fc.passed_core :
                   /\ c \in DOMAIN core_map
                   /\ \E d \in DOMAIN courses :
                          /\ CanonicalOf(d) = c
                          /\ GradeRank(grade_order, courses[d])
                                 >= GradeRank(grade_order, PgOf(core_map[c]))
            /\ \A d \in DOMAIN courses :
                   (/\ CanonicalOf(d) \in DOMAIN core_map
                    /\ GradeRank(grade_order, courses[d])
                           < GradeRank(grade_order, PgOf(core_map[CanonicalOf(d)])))
                   => CanonicalOf(d) \in fc.failed_core

\* C5 witness: a core course with passing grade 'C' failed with grade 'D', next to a
\* core course that was passed.
C5_Witness ==
    /\ pc = "loop"
    /\ fc.passed_core # {}
    /\ \E d \in DOMAIN Student.courses :
           /\ Student.courses[d] = "D"
           /\ CanonicalOf(d) \in fc.failed_core
           /\ PgOf(CoreMap(AllCurricula[fc.curriculum_id])[CanonicalOf(d)]) = "C"

(* C11 *)

\* the records of the current student whose grade label is in the grade order
KnownGradeRecords == {d \in DOMAIN Student.courses : Student.courses[d] \in DOMAIN grade_order}

\* C11 (as claimed): a record whose grade label is absent from the grade order is
\* never added to passed_core, passed_major_electives, passed_choice_placeholders or
\* the satisfied-internal-codes set: whatever these sets hold was put there by a
\* record whose grade label the grade order has.
C11_UnknownGradeNeverPasses ==
    pc = "loop" =>
        LET curriculum == AllCurricula[fc.curriculum_id]
        IN  /\ \A c \in fc.passed_core \cup fc.passed_major :
                   \E d \in KnownGradeRecords : CanonicalOf(d) = c
            /\ \A p \in fc.passed_choices :
                   \E d \in KnownGradeRecords :
                       FirstChoiceFrom(ChoiceMap(curriculum), ChoiceOrder(curriculum), 1,
                                       CanonicalOf(d)) = p
            /\ \A k \in fc.passed_internal_codes :
                   \E d \in KnownGradeRecords : get_internal_code(d) = k

(* C12 *)

\* C12 (as claimed): a regular simulated term (term_in_year 1 or 2) lying in the
\* academic year that starts in Y gets the absolute term number
\* 2 * (Y - 2023) + term_in_year.
C12_AbsoluteTermNumber ==
    (pc = "loop" /\ fc.i < Horizon /\ SemInYear(fc) \in {1, 2}) =>
        CurrentSemesterNum(fc) = 2 * (AcademicYear(fc) - EpochYear) + SemInYear(fc)

(* C13 *)

\* C13 (as claimed): in every simulated term, every course in the retake set that
\* is offered in that term and whose prerequisites are all in forecast_passed is
\* scheduled in that term and removed from the retake set.
C13_RetakesScheduled ==
    [][(pc = "loop" /\ pc' = "loop") =>
          \A c \in fc.retake_courses :
              (/\ c \in get_offerings(offering_cache, SemStr(fc), fc.curriculum_id)
               /\ PreOf(CoreMap(AllCurricula[fc.curriculum_id])[c]) \subseteq fc.forecast_passed)
              => (c \in NewlyScheduled(fc, fc') /\ c \notin fc'.retake_courses)]_vars

(* C15 *)

\* the pool courses listed as options in an item of a term entry
OptionCourses(item) == {item.options[n].course_id : n \in 1..Len(item.options)}

\* C15 (as claimed): a pool course listed as an option in the item emitted for one
\* major-elective slot is not listed as an option in the item emitted for another
\* slot in the same term.
C15_OptionsNotShared ==
    pc = "loop" =>
        \A e \in 1..Len(fc.forecast) :
            \A a, b \in 1..Len(fc.forecast[e].courses) :
                (/\ a # b
                 /\ fc.forecast[e].courses[a].kind = "major"
                 /\ fc.forecast[e].courses[b].kind = "major")
                => OptionCourses(fc.forecast[e].courses[a])
                       \cap OptionCourses(fc.forecast[e].courses[b]) = {}

(* C16 *)

\* C16: in every simulated term a pending core course is scheduled if and only if
\* its declared term equals the absolute term number, its prerequisites are all in
\* forecast_passed, it is in the offering set of the term, and its internal code is
\* neither satisfied nor already forecast (in an earlier term, or in this term by
\* another course); it leaves pending core exactly when it is scheduled.
C16_CoreSchedulingRule ==
    [][(pc = "loop" /\ pc' = "loop") =>
          LET core_map == CoreMap(AllCurricula[fc.curriculum_id])
              offerings == get_offerings(offering_cache, SemStr(fc), fc.curriculum_id)
              scheduled == NewlyScheduled(fc, fc')
          IN  \A c \in fc.pending_core :
                  /\ (c \in scheduled) <=>
                         /\ core_map[c].semester = CurrentSemesterNum(fc)
                         /\ PreOf(core_map[c]) \subseteq fc.forecast_passed
                         /\ c \in offerings
                         /\ get_internal_code(c) \notin fc.passed_internal_codes
                         /\ get_internal_code(c) \notin fc.forecasted_internal_codes
                         /\ \A d \in scheduled \ {c} :
                                get_internal_code(d) # get_internal_code(c)
                  /\ (c \in fc'.pending_core) <=> (c \notin scheduled)]_vars

\* C16 witness: the simulation is over; a core course the student never attempted
\* was scheduled and another one was not and is still pending.
C16_Witness ==
    /\ pc = "loop"
    /\ fc.i = Horizon
    /\ ScheduledCore(fc.forecast, fc.curriculum_id) \ fc.failed_core # {}
    /\ fc.pending_core # {}

(* C17 *)

\* the entries of a forecast are in chronological order without repetition
Chronological(forecast) ==
    \A a, b \in 1..Len(forecast) :
        a < b => \/ forecast[a].academic_year < forecast[b].academic_year
                 \/ /\ forecast[a].academic_year = forecast[b].academic_year
                    /\ forecast[a].semester < forecast[b].semester

\* C17: generate_forecast finishes after exactly 18 simulated term steps whatever
\* remains unmet; the forecast has at most 18 entries (at most one per simulated
\* term), every entry holds at least one item, no two entries carry the same
\* (academic_year, semester) pair and the entries are in chronological order.
C17_HorizonBounded ==
    /\ [](pc = "loop" =>
            /\ fc.i <= 18
            /\ Len(fc.forecast) <= fc.i
            /\ \A e \in 1..Len(fc.forecast) : fc.forecast[e].courses # <<>>
            /\ Chronological(fc.forecast))
    /\ [][/\ (pc = "loop" /\ pc' = "loop") => fc'.i = fc.i + 1
          /\ (pc = "loop" /\ pc' = "idle") =>
                 /\ fc.i = 18
                 /\ full_forecast'[fc.student_id].forecast = fc.forecast]_vars
    /\ (pc = "loop") ~> (pc = "idle")

\* C17 witness: the 18 steps are done, the forecast has entries, and core courses
\* and an elective slot are still unmet.
C17_Witness ==
    /\ pc = "loop"
    /\ fc.i = 18
    /\ Len(fc.forecast) >= 2
    /\ fc.pending_core \cup fc.retake_courses # {}
    /\ fc.pending_major_slots + fc.pending_free_slots > 0

(* C18 *)

\* the number of forecast terms that hold core course c as a scheduled course
TimesScheduled(forecast, k, c) ==
    Cardinality({pl \in CorePlaces(forecast, k) : CourseAt(forecast, pl) = c})

\* C18 (as claimed): in the result about to be returned every core course of the
\* curriculum is in exactly one of passed_courses, pending_core_courses and the
\* forecast, and in the forecast at most once.
C18_CoreAccountedOnce ==
    (pc = "loop" /\ fc.i = Horizon) =>
        LET result == ForecastResult(fc)
        IN  \A c \in DOMAIN CoreMap(AllCurricula[fc.curriculum_id]) :
                (IF c \in result.passed_courses THEN 1 ELSE 0)
                    + (IF c \in result.pending_core_courses THEN 1 ELSE 0)
                    + TimesScheduled(result.forecast, fc.curriculum_id, c) = 1

(* C19 *)

\* C19 (as claimed): for every course code that appears in an alias entry, the
\* internal_code field of get_course_details equals get_internal_code.
C19_LookupTablesAgree ==
    \A c \in AllCourseIds(aliases) :
        get_course_details(c, KA).internal_code = get_internal_code(c)

(* C8 *)

\* C8 (as claimed): whatever the order of the batch and whatever earlier students left
\* in the resolver's caches, the result computed for a student is a result the
\* student gets when processed alone on a fresh resolver.
C8_StudentsIndependent ==
    \A n \in 1..Len(students_data) :
        Forecasted(n) => ResultOf(n) \in PossibleResults(students_data[n], EmptyDict)

(* C9 *)

\* C9 (as claimed): generate_forecast has exactly one possible result: the result
\* about to be returned is the only one the orders of enumeration of the retake,
\* pending-core and pending-choice sets can produce.
C9_OneResult ==
    (pc = "loop" /\ fc.i = Horizon) =>
        PossibleResults(Student, canonical_cache) = {ForecastResult(fc)}

(* C10 *)

\* the canonical cache student n finds when the students before it whose curriculum
\* is unset or not loaded are left out of the batch
RECURSIVE CacheWithoutMissing(_)
CacheWithoutMissing(n) ==
    IF n = 1 THEN EmptyDict
    ELSE IF CurriculumMissing(students_data[n - 1], AllCurricula)
         THEN CacheWithoutMissing(n - 1)
         ELSE ProgressCacheAfter(CacheWithoutMissing(n - 1), students_data[n - 1].courses,
                                 AllCurricula[students_data[n - 1].curriculum])

\* C10: a student whose curriculum id is unset or not loaded gets a record with an
\* error field and nothing else; every other student of the batch gets a result it
\* can get in the batch without those students.
C10_MissingCurriculum ==
    \A n \in 1..Len(students_data) :
        n < pos =>
            IF CurriculumMissing(students_data[n], AllCurricula)
            THEN DOMAIN ResultOf(n) = {"error"}
            ELSE ResultOf(n) \in PossibleResults(students_data[n], CacheWithoutMissing(n))

\* C10 witness: a finished batch in which a student without a loaded curriculum is
\* followed by a student who got a forecast.
C10_Witness ==
    /\ BatchDone
    /\ \E n \in 1..Len(students_data), m \in 1..Len(students_data) :
           /\ n < m
           /\ CurriculumMissing(students_data[n], AllCurricula)
           /\ Forecasted(m)
           /\ ResultOf(m).forecast # <<>>

-----------------------------------------------------------------------------
(* The resolver alone: get_canonical_course called from outside, in any order *)

\* alias entries over a few code strings; entry n has internal code n
ResolverEntries ==
    {[default |-> d, cur |-> (KA :> a @@ KB :> b)] :
        d \in {Empty, CX}, a \in {Empty, CX, CXV, CY}, b \in {Empty, CY}}

ResolverTables ==
    UNION {{[n \in 1..len |-> [code |-> n, name |-> "n", default |-> q[n].default,
                               cur |-> q[n].cur]] :
               q \in [1..len -> ResolverEntries]} : len \in 1..MaxEntries}

\* the arguments of the calls
CallCourses == {CX, CY, CXV, CX1}
CallCurricula == {KA, KB}

InitResolverOnly ==
    /\ \E al \in ResolverTables : InitResolver(al)
    /\ grade_order = GradeOrder
    /\ calendar = BatchCalendar
    /\ InitBatch(<<>>)

\* one call of get_canonical_course
CallGetCanonicalCourse ==
    /\ last_call.n < MaxCalls
    /\ \E c \in CallCourses, k \in CallCurricula :
           /\ last_call' = [n |-> last_call.n + 1,
                            student_course_id |-> c,
                            curriculum_id |-> k,
                            hit |-> CanonicalKey(c, k) \in DOMAIN canonical_cache,
                            result |-> CanonicalValue(canonical_cache, c, k)]
           /\ canonical_cache' = CanonicalCacheAfter(canonical_cache, c, k)
    /\ UNCHANGED <<aliases, course_id_to_details, course_id_to_internal_code,
                   offering_cache, grade_order, calendar, students_data,
                   full_forecast, pos, pc, fc>>

NextResolver == CallGetCanonicalCourse

SpecResolver == InitResolverOnly /\ [][NextResolver]_vars

(* C6 *)

\* entry n defines s as its code for curriculum k
DefinesFor(n, s, k) == s # Empty /\ CurriculumCourse(aliases[n], k) = s

\* no course code belongs to two alias entries
OneEntryPerCode ==
    \A m, n \in 1..Len(aliases) :
        m # n => EntryCourseIds(aliases[m]) \cap EntryCourseIds(aliases[n]) = {}

\* C6 (as claimed, on the alias tables in which no course code belongs to two
\* entries): for every alias entry that defines a curriculum-specific code s for k,
\* get_canonical_course(s, k) returns s; for every u that appears in no alias entry,
\* get_canonical_course(u, k) returns u.
C6_RoundTrip ==
    (last_call.n > 0 /\ OneEntryPerCode) =>
        LET s == last_call.student_course_id
            k == last_call.curriculum_id
        IN  ((\E n \in 1..Len(aliases) : DefinesFor(n, s, k))
                \/ s \notin AllCourseIds(aliases))
            => last_call.result = s

(* C14 *)

\* the entries whose code for curriculum k, split on '/', contains c
CurriculumMatches(c, k) ==
    {n \in 1..Len(aliases) : InSplit(c, CurriculumCourse(aliases[n], k))}

\* C14 (as claimed, for the calls that miss the cache): whenever some entry's code
\* for k contains c, get_canonical_course(c, k) returns the code for k of the first
\* such entry in table order, also when an earlier entry lists c in its default code.
C14_CurriculumCodeFirst ==
    (last_call.n > 0 /\ ~last_call.hit) =>
        LET c == last_call.student_course_id
            k == last_call.curriculum_id
            M == CurriculumMatches(c, k)
        IN  M # {} =>
                last_call.result =
                    CurriculumCourse(aliases[CHOOSE n \in M : \A m \in M : n <= m], k)

(* C7 *)

\* C7 (as claimed): after any sequence of get_canonical_course calls, the value a
\* call returns for a pair (student_course_id, curriculum_id) is the value the
\* search over the alias table returns for that pair (which is what a cache entry
\* that two distinct pairs never share guarantees).
C7_CacheTransparent ==
    last_call.n > 0 =>
        last_call.result = CanonicalSearch(aliases, last_call.student_course_id,
                                           last_call.curriculum_id)

====
